---- MODULE Spec2Model ----
(***************************************************************************)
(* Model of osmdata: the augmented-diff (adiff) XML parsers of             *)
(* osmdata/parsers.py and the tag pattern utility of osmdata/models.py.    *)
(*                                                                         *)
(* An XML node is a record [tagName, attributes, childNodes]; attributes   *)
(* is a function whose DOMAIN is the set of attributes the node carries    *)
(* (minidom's NamedNodeMap: `key in attributes`, attributes[key] raising   *)
(* KeyError).  A text node has tagName "#text".                            *)
(*                                                                         *)
(* A parser call returns a record [exc, arg, val, log]: exc = "" and val   *)
(* the model instance when it returns, exc the exception class and arg its *)
(* argument when it raises; log is the sequence of rows the call created   *)
(* through Model.objects.create, in creation order (rows created before a  *)
(* raise stay created: the parsers open no transaction).                   *)
(***************************************************************************)
EXTENDS Integers, Sequences, FiniteSets, TLC

VARIABLES
    node,        \* the XML node handed to the parser under run (self.node)
    pc,          \* position of the run
    index,       \* AdiffParser.parse: position in the list of <action> nodes
    actions,     \* AdiffParser.parse: the local list `actions`
    diff,        \* AdiffParser.parse: the local `diff` (None until created)
    db,          \* rows created so far, in creation order
    exc,         \* the exception that ended the run, NoExc if none
    result,      \* value returned by transform / parse_tag_pattern
    tag_pattern  \* argument of Tag.parse_tag_pattern (a sequence of characters)

vars == <<node, pc, index, actions, diff, db, exc, result, tag_pattern>>

-----------------------------------------------------------------------------
(* Bounds of the explored inputs *)

MaxActions == 2
MaxNd == 2
MaxMembers == 2
MaxPatternLen == 4

-----------------------------------------------------------------------------
(* Values *)

None == [type |-> "None"]
NULL == "NULL"
NoExc == [exc |-> "", arg |-> ""]

OK(v, log) == [exc |-> "", arg |-> "", val |-> v, log |-> log]
Raise(e, a, log) == [exc |-> e, arg |-> a, val |-> None, log |-> log]

NoAttrs == [a \in {} |-> ""]
XML(name, attrs, children) ==
    [tagName |-> name, attributes |-> attrs, childNodes |-> children]
TextNode == XML("#text", NoAttrs, <<>>)

-----------------------------------------------------------------------------
(* xml.dom.minidom *)

RECURSIVE GetElementsByTagName(_, _)
RECURSIVE DescendantsFrom(_, _, _)

\* Element.getElementsByTagName: every DESCENDANT element of that name, in
\* document (pre-)order, not only the direct children.
DescendantsFrom(n, name, k) ==
    IF k > Len(n.childNodes) THEN <<>>
    ELSE LET c == n.childNodes[k] IN
         (IF c.tagName = name THEN <<c>> ELSE <<>>)
            \o GetElementsByTagName(c, name)
            \o DescendantsFrom(n, name, k + 1)

GetElementsByTagName(n, name) == DescendantsFrom(n, name, 1)

RECURSIVE FirstNontextFrom(_, _)
FirstNontextFrom(children, k) ==
    IF k > Len(children) THEN None
    ELSE IF children[k].tagName # "#text" THEN children[k]
    ELSE FirstNontextFrom(children, k + 1)

\* getFirstNontextChild: None when every child is text; reading .childNodes
\* of None raises AttributeError.
getFirstNontextChild(element) ==
    IF element = None THEN Raise("AttributeError", "childNodes", <<>>)
    ELSE OK(FirstNontextFrom(element.childNodes, 1), <<>>)

-----------------------------------------------------------------------------
(* AbstractXMLParser *)

PARSER_MAP ==
    [node |-> "NodeParser", way |-> "WayParser", relation |-> "RelationParser"]

_dict_fetch_keyerror(_dict, str_name) ==
    IF str_name \in DOMAIN _dict THEN OK(_dict[str_name], <<>>)
    ELSE Raise("KeyError", str_name, <<>>)

_dict_fetch(_dict, str_name) ==
    IF str_name \in DOMAIN _dict THEN OK(_dict[str_name], <<>>)
    ELSE Raise("FileFormatError", str_name, <<>>)

get_parser(str_name) == _dict_fetch(PARSER_MAP, str_name)

-----------------------------------------------------------------------------
(* AbstractOSMElementParser *)

TagRow(k, v) == [table |-> "Tag", k |-> k, v |-> v]

\* tags.append(Tag.objects.create(...)) followed by the rest of the loop
TagCons(t, rest) ==
    IF rest.exc # "" THEN Raise(rest.exc, rest.arg, <<t>> \o rest.log)
    ELSE OK(<<t>> \o rest.val, <<t>> \o rest.log)

RECURSIVE TagsFrom(_, _)
\* the loop of parse_tags, from the k-th element of the list it iterates
TagsFrom(els, k) ==
    IF k > Len(els) THEN OK(<<>>, <<>>)
    ELSE IF "k" \notin DOMAIN els[k].attributes THEN Raise("KeyError", "k", <<>>)
    ELSE IF "v" \notin DOMAIN els[k].attributes THEN Raise("KeyError", "v", <<>>)
    ELSE TagCons(TagRow(els[k].attributes["k"], els[k].attributes["v"]),
                 TagsFrom(els, k + 1))

\* parse_tags: one Tag per element returned by getElementsByTagName('tag').
parse_tags(n) == TagsFrom(GetElementsByTagName(n, "tag"), 1)

get_basic_attributes(n) ==
    IF "id" \in DOMAIN n.attributes THEN n.attributes["id"]
    ELSE IF "ref" \in DOMAIN n.attributes THEN n.attributes["ref"]
    ELSE NULL

Element(type, osmid, lat, lon) ==
    [type |-> type, osmid |-> osmid, lat |-> lat, lon |-> lon,
     tags |-> <<>>, nodes |-> <<>>, members |-> <<>>]
ElementRow(el) == [table |-> el.type, osmid |-> el.osmid]

-----------------------------------------------------------------------------
(* NodeParser, WayParser, RelationParser, RelationMemberParser *)

RECURSIVE NodeParser_parse(_)
RECURSIVE WayParser_parse(_)
RECURSIVE RelationParser_parse(_)
RECURSIVE RelationMemberParser_parse(_, _)
RECURSIVE WayNodesFrom(_, _)
RECURSIVE MembersFrom(_, _)

\* self.parse_tags(node); return node
NodeFinish(el, tags) ==
    IF tags.exc # "" THEN Raise(tags.exc, tags.arg, <<ElementRow(el)>> \o tags.log)
    ELSE OK([el EXCEPT !.tags = tags.val], <<ElementRow(el)>> \o tags.log)

NodeParser_parse(n) ==
    IF "lat" \notin DOMAIN n.attributes THEN Raise("KeyError", "lat", <<>>)
    ELSE IF "lon" \notin DOMAIN n.attributes THEN Raise("KeyError", "lon", <<>>)
    ELSE NodeFinish(Element("node", get_basic_attributes(n),
                            n.attributes["lat"], n.attributes["lon"]),
                    parse_tags(n))

WayNodeRow(order) == [table |-> "WayNode", order |-> order]

\* WayNode.objects.create(way=way, node=node, order=index) for the parsed
\* nd, followed by the rest of the loop
WayNodeCons(order, nd, rest) ==
    IF nd.exc # "" THEN nd
    ELSE IF rest.exc # ""
    THEN Raise(rest.exc, rest.arg, nd.log \o <<WayNodeRow(order)>> \o rest.log)
    ELSE OK(<<[node |-> nd.val, order |-> order]>> \o rest.val,
            nd.log \o <<WayNodeRow(order)>> \o rest.log)

\* The loop of WayParser.parse over enumerate(getElementsByTagName('nd')),
\* from its k-th element (index = k - 1).
WayNodesFrom(els, k) ==
    IF k > Len(els) THEN OK(<<>>, <<>>)
    ELSE WayNodeCons(k - 1, NodeParser_parse(els[k]), WayNodesFrom(els, k + 1))

\* self.parse_tags(way); return way
WayFinish(el, nds, tags) ==
    IF nds.exc # "" THEN Raise(nds.exc, nds.arg, <<ElementRow(el)>> \o nds.log)
    ELSE IF tags.exc # ""
    THEN Raise(tags.exc, tags.arg, <<ElementRow(el)>> \o nds.log \o tags.log)
    ELSE OK([el EXCEPT !.nodes = nds.val, !.tags = tags.val],
            <<ElementRow(el)>> \o nds.log \o tags.log)

WayParser_parse(n) ==
    WayFinish(Element("way", get_basic_attributes(n), NULL, NULL),
              WayNodesFrom(GetElementsByTagName(n, "nd"), 1),
              parse_tags(n))

\* the if/elif chain of RelationMemberParser.parse and parser.parse()
MemberElement(_type, n) ==
    IF _type = "node" THEN NodeParser_parse(n)
    ELSE IF _type = "way" THEN WayParser_parse(n)
    ELSE IF _type = "relation" THEN RelationParser_parse(n)
    ELSE Raise("FileFormatError", _type, <<>>)

MemberRow(order, role) ==
    [table |-> "RelationMember", order |-> order, role |-> role]

\* RelationMember.objects.create(relation=..., element=element,
\*     order=self.order, role=self.node.attributes['role'].value)
MemberFinish(n, order, element) ==
    IF element.exc # "" THEN element
    ELSE IF "role" \notin DOMAIN n.attributes
    THEN Raise("KeyError", "role", element.log)
    ELSE OK([element |-> element.val, order |-> order,
             role |-> n.attributes["role"]],
            element.log \o <<MemberRow(order, n.attributes["role"])>>)

RelationMemberParser_parse(n, order) ==
    IF "type" \notin DOMAIN n.attributes THEN Raise("KeyError", "type", <<>>)
    ELSE MemberFinish(n, order, MemberElement(n.attributes["type"], n))

\* member_parser.parse() followed by the rest of the loop
MemberCons(m, rest) ==
    IF m.exc # "" THEN m
    ELSE IF rest.exc # "" THEN Raise(rest.exc, rest.arg, m.log \o rest.log)
    ELSE OK(<<m.val>> \o rest.val, m.log \o rest.log)

\* The loop of RelationParser.parse over
\* enumerate(getElementsByTagName('member')), from its k-th element.
MembersFrom(els, k) ==
    IF k > Len(els) THEN OK(<<>>, <<>>)
    ELSE MemberCons(RelationMemberParser_parse(els[k], k - 1),
                    MembersFrom(els, k + 1))

\* self.parse_tags(relation); return relation
RelationFinish(el, ms, tags) ==
    IF ms.exc # "" THEN Raise(ms.exc, ms.arg, <<ElementRow(el)>> \o ms.log)
    ELSE IF tags.exc # ""
    THEN Raise(tags.exc, tags.arg, <<ElementRow(el)>> \o ms.log \o tags.log)
    ELSE OK([el EXCEPT !.members = ms.val, !.tags = tags.val],
            <<ElementRow(el)>> \o ms.log \o tags.log)

RelationParser_parse(n) ==
    RelationFinish(Element("relation", get_basic_attributes(n), NULL, NULL),
                   MembersFrom(GetElementsByTagName(n, "member"), 1),
                   parse_tags(n))

\* klass(node).parse() for a class of PARSER_MAP
ParserParse(klass, n) ==
    IF klass.exc # "" THEN klass
    ELSE IF klass.val = "NodeParser" THEN NodeParser_parse(n)
    ELSE IF klass.val = "WayParser" THEN WayParser_parse(n)
    ELSE RelationParser_parse(n)

\* AbstractXMLParser.transform; reading .localName of None raises
\* AttributeError.
transform(n) ==
    IF n = None THEN Raise("AttributeError", "localName", <<>>)
    ELSE ParserParse(get_parser(n.tagName), n)

-----------------------------------------------------------------------------
(* ActionParser *)

\* tag = self.node.getElementsByTagName(i)[0], None on IndexError
FirstOrNone(found) == IF Len(found) = 0 THEN None ELSE found[1]

\* ActionParser._get_old_new for one of 'old', 'new': the first element of
\* that name below the action, None when there is none, handed to
\* getFirstNontextChild.
OldNewYield(n, i) == getFirstNontextChild(FirstOrNone(GetElementsByTagName(n, i)))

OldNewPair(o, w) ==
    IF o.exc # "" THEN o
    ELSE IF w.exc # "" THEN w
    ELSE OK([old_tag |-> o.val, new_tag |-> w.val], <<>>)

\* `old_tag, new_tag = self._get_old_new()`: the unpacking runs the generator
\* to its end, so both yields are evaluated, 'old' first.
_get_old_new(n) == OldNewPair(OldNewYield(n, "old"), OldNewYield(n, "new"))

Action_create_swapped(new, old, type) ==
    [type |-> type, new |-> old, old |-> new]

\* Action.objects.create(new=new, old=old, type=action_type)
Action_create(new, old, type) ==
    [type |-> type, new |-> new, old |-> old]

ActionRow(type) == [table |-> "Action", type |-> type]

ActionReturn(new, old, type, log) ==
    OK(Action_create(new, old, type), log \o <<ActionRow(type)>>)

\* action_type == 'create'
CreateBranch(type, new) ==
    IF new.exc # "" THEN new
    ELSE ActionReturn(new.val, None, type, new.log)

\* if old_tag: ... / if new_tag: ...
TransformIf(tag) == IF tag # None THEN transform(tag) ELSE OK(None, <<>>)

ModifyFinish(type, old, new) ==
    IF old.exc # "" THEN old
    ELSE IF new.exc # "" THEN Raise(new.exc, new.arg, old.log \o new.log)
    ELSE ActionReturn(new.val, old.val, type, old.log \o new.log)

\* action_type == 'modify'
ModifyBranch(type, tags) ==
    IF tags.exc # "" THEN tags
    ELSE ModifyFinish(type, TransformIf(tags.val.old_tag),
                      TransformIf(tags.val.new_tag))

DeleteFinish(type, old) ==
    IF old.exc # "" THEN old
    ELSE ActionReturn(None, old.val, type, old.log)

\* action_type == 'delete'
DeleteBranch(type, tags) ==
    IF tags.exc # "" THEN tags
    ELSE DeleteFinish(type, transform(tags.val.old_tag))

ActionDispatch(action_type, n) ==
    IF action_type = "create"
    THEN CreateBranch(action_type, transform(getFirstNontextChild(n).val))
    ELSE IF action_type = "modify"
    THEN ModifyBranch(action_type, _get_old_new(n))
    ELSE IF action_type = "delete"
    THEN DeleteBranch(action_type, _get_old_new(n))
    ELSE ActionReturn(None, None, action_type, <<>>)

ActionParser_parse(n) ==
    IF "type" \notin DOMAIN n.attributes THEN Raise("KeyError", "type", <<>>)
    ELSE ActionDispatch(n.attributes["type"], n)

-----------------------------------------------------------------------------
(* AdiffParser.parse, one step per statement *)

NotAdiff == "That does not look like an adiff file"
DiffRow == [table |-> "Diff"]

\* the list AdiffParser.parse iterates
ActionNodes == GetElementsByTagName(node, "action")

collect_prepend(acts, a) == <<a>> \o acts

\* actions.append(action_parser.parse())
collect(acts, a) == Append(acts, a)

\* if self.node.tagName != 'osm': raise FileFormatError(...)
CheckRoot ==
    /\ pc = "start"
    /\ IF node.tagName # "osm"
       THEN /\ pc' = "raised"
            /\ exc' = [exc |-> "FileFormatError", arg |-> NotAdiff]
       ELSE /\ pc' = "create_diff"
            /\ UNCHANGED exc
    /\ UNCHANGED <<node, index, actions, diff, db, result, tag_pattern>>

CreateDiffUnsaved ==
    /\ pc = "create_diff"
    /\ diff' = [actions |-> <<>>]
    /\ actions' = <<>>
    /\ index' = 1
    /\ pc' = "loop"
    /\ UNCHANGED <<node, db, exc, result, tag_pattern>>

\* diff = Diff.objects.create(); actions = []
CreateDiff ==
    /\ pc = "create_diff"
    /\ db' = Append(db, DiffRow)
    /\ diff' = [actions |-> <<>>]
    /\ actions' = <<>>
    /\ index' = 1
    /\ pc' = "loop"
    /\ UNCHANGED <<node, exc, result, tag_pattern>>

\* the effect of one iteration whose action_parser.parse() ended as r
ParseActionEnd(r) ==
    /\ db' = db \o r.log
    /\ IF r.exc # ""
       THEN /\ pc' = "raised"
            /\ exc' = [exc |-> r.exc, arg |-> r.arg]
            /\ UNCHANGED <<index, actions>>
       ELSE /\ actions' = collect(actions, r.val)
            /\ index' = index + 1
            /\ UNCHANGED <<pc, exc>>

\* one iteration of `for action in self.node.getElementsByTagName("action")`
ParseAction ==
    /\ pc = "loop"
    /\ index <= Len(ActionNodes)
    /\ ParseActionEnd(ActionParser_parse(ActionNodes[index]))
    /\ UNCHANGED <<node, diff, result, tag_pattern>>

\* diff.actions.set(actions); return diff
SetActions ==
    /\ pc = "loop"
    /\ index > Len(ActionNodes)
    /\ diff' = [diff EXCEPT !.actions = actions]
    /\ result' = diff'
    /\ pc' = "done"
    /\ UNCHANGED <<node, index, actions, db, exc, tag_pattern>>

-----------------------------------------------------------------------------
(* AbstractXMLParser.transform called on one element node *)

\* the caller's view of a call that ended as r
CallEnd(r) ==
    /\ db' = db \o r.log
    /\ result' = r.val
    /\ exc' = [exc |-> r.exc, arg |-> r.arg]
    /\ pc' = IF r.exc # "" THEN "raised" ELSE "returned"

Transform ==
    /\ pc = "call"
    /\ CallEnd(transform(node))
    /\ UNCHANGED <<node, index, actions, diff, tag_pattern>>

-----------------------------------------------------------------------------
(* Tag.parse_tag_pattern *)

RECURSIVE LineLen(_, _)
\* number of leading characters `.` can match: those before the first "\n"
LineLen(s, k) ==
    IF k > Len(s) \/ s[k] = "\n" THEN k - 1 ELSE LineLen(s, k + 1)

\* key lengths for which (?P<key>.+)=(?P<value>.+) matches at the start of s
KeyLengths(s) ==
    {n \in 1..LineLen(s, 1) :
        /\ n + 2 <= LineLen(s, 1)
        /\ s[n + 1] = "="}

Longest(S) == CHOOSE n \in S : \A m \in S : m <= n
Shortest(S) == CHOOSE n \in S : \A m \in S : n <= m

RE_TAG_PATTERN_match_lazy(s) ==
    IF KeyLengths(s) = {} THEN None
    ELSE LET n == Shortest(KeyLengths(s)) IN
         [key |-> SubSeq(s, 1, n), value |-> SubSeq(s, n + 2, LineLen(s, 1))]

\* RE_TAG_PATTERN.match: both groups are greedy, the key is the longest
\* prefix that lets the rest match, the value runs to the end of the line.
RE_TAG_PATTERN_match(s) ==
    IF KeyLengths(s) = {} THEN None
    ELSE LET n == Longest(KeyLengths(s)) IN
         [key |-> SubSeq(s, 1, n), value |-> SubSeq(s, n + 2, LineLen(s, 1))]

\* the body of parse_tag_pattern once m = RE_TAG_PATTERN.match(tag_pattern)
PatternFilter(s, m) ==
    IF m # None
    THEN OK(IF m.value # <<"*">> THEN [k |-> m.key, v |-> m.value]
            ELSE [k |-> m.key], <<>>)
    ELSE Raise("ValueError", s, <<>>)

parse_tag_pattern(s) == PatternFilter(s, RE_TAG_PATTERN_match(s))

ParseTagPattern ==
    /\ pc = "call"
    /\ CallEnd(parse_tag_pattern(tag_pattern))
    /\ UNCHANGED <<node, index, actions, diff, tag_pattern>>

-----------------------------------------------------------------------------
(* Inputs *)

SeqsUpTo(S, n) == UNION {[1..k -> S] : k \in 0..n}

Absent == [type |-> "Absent"]
BadRef == "9"

T1 == XML("tag", [k |-> "highway", v |-> "primary"], <<>>)
T2 == XML("tag", [k |-> "highway", v |-> "secondary"], <<>>)

NdBare == XML("nd", [ref |-> "1"], <<>>)
NdInline == XML("nd", [ref |-> "2", lat |-> "10", lon |-> "20"], <<>>)
NdTagged == XML("nd", [ref |-> "3", lat |-> "11", lon |-> "21"], <<T2>>)
NdInputs == {NdBare, NdInline, NdTagged}

N1 == XML("node", [id |-> "1", lat |-> "10", lon |-> "20"], <<T1>>)
W1 == XML("way", [id |-> "2"], <<NdInline, T1>>)
Foo == XML("foo", [id |-> BadRef], <<>>)
MFoo == XML("member", [type |-> "foo", ref |-> BadRef, role |-> "bad"], <<>>)
Rbad == XML("relation", [id |-> "4"], <<MFoo>>)

MNode == XML("member", [type |-> "node", ref |-> "4", role |-> "a",
                        lat |-> "10", lon |-> "20"], <<>>)
MNodeTagged == XML("member", [type |-> "node", ref |-> "5", role |-> "b",
                              lat |-> "11", lon |-> "21"], <<T2>>)
MNoRole == XML("member", [type |-> "node", ref |-> "5",
                          lat |-> "11", lon |-> "21"], <<>>)
MWay == XML("member", [type |-> "way", ref |-> "6", role |-> "a"], <<NdInline>>)
MRelRef == XML("member", [type |-> "relation", ref |-> "8", role |-> "b"], <<>>)
MRel == XML("member", [type |-> "relation", ref |-> "8", role |-> "c"], <<MNode>>)
MemberInputs == {MNode, MNodeTagged, MNoRole, MWay, MRelRef, MRel, MFoo}

WayInputs ==
    {XML("way", [id |-> "7"], nds \o tags) :
        nds \in SeqsUpTo(NdInputs, MaxNd), tags \in {<<>>, <<T1>>, <<T1, T1>>}}

RelationInputs ==
    {XML("relation", [id |-> "10"], ms \o tags) :
        ms \in SeqsUpTo(MemberInputs, MaxMembers), tags \in {<<>>, <<T1>>}}

ElementInputs ==
    WayInputs \cup RelationInputs
        \cup {N1, Foo, XML("node", [id |-> "1"], <<>>),
              XML("node", [lat |-> "10", lon |-> "20"], <<T1, T2>>)}

\* an <old>/<new> wrapper: whitespace text around the embedded element, or
\* whitespace only
Wrapper(name, el) ==
    XML(name, NoAttrs,
        IF el = None THEN <<TextNode>> ELSE <<TextNode, el, TextNode>>)

OldNew(o, w) ==
    (IF o = Absent THEN <<>> ELSE <<Wrapper("old", o)>>)
        \o (IF w = Absent THEN <<>> ELSE <<Wrapper("new", w)>>)

ActionXML(type, children) == XML("action", [type |-> type], children)

ActionInputs ==
    {ActionXML("create", c) :
        c \in {<<>>, <<TextNode, N1, TextNode>>, <<Foo>>, <<Rbad>>, <<W1>>}}
    \cup {ActionXML("modify", OldNew(o, w)) :
            o \in {Absent, None, N1}, w \in {Absent, None, W1, Foo}}
    \cup {ActionXML("delete", OldNew(p[1], p[2])) :
            p \in {<<Absent, Absent>>, <<Absent, N1>>, <<N1, Absent>>,
                   <<N1, N1>>, <<None, N1>>, <<Foo, N1>>, <<W1, None>>}}
    \cup {ActionXML("remove", OldNew(N1, N1))}

DocInputs ==
    {XML("osm", NoAttrs, s) : s \in SeqsUpTo(ActionInputs, MaxActions)}
        \cup {XML("osmChange", NoAttrs, s) : s \in SeqsUpTo(ActionInputs, 1)}

PatternChars == {"a", "=", "*", "\n"}
PatternInputs == SeqsUpTo(PatternChars, MaxPatternLen)

-----------------------------------------------------------------------------
(* Specifications *)

Idle ==
    /\ index = 0
    /\ actions = <<>>
    /\ diff = None
    /\ db = <<>>
    /\ exc = NoExc
    /\ result = None

\* AdiffParser(node).parse() on a document
Init ==
    /\ node \in DocInputs
    /\ pc = "start"
    /\ tag_pattern = <<>>
    /\ Idle

Next == CheckRoot \/ CreateDiff \/ ParseAction \/ SetActions

Spec == Init /\ [][Next]_vars

\* transform(node) on one element node
InitElement ==
    /\ node \in ElementInputs
    /\ pc = "call"
    /\ tag_pattern = <<>>
    /\ Idle

SpecElement == InitElement /\ [][Transform]_vars

\* Tag.parse_tag_pattern(tag_pattern)
InitPattern ==
    /\ node = None
    /\ pc = "call"
    /\ tag_pattern \in PatternInputs
    /\ Idle

SpecPattern == InitPattern /\ [][ParseTagPattern]_vars

-----------------------------------------------------------------------------
(* Vocabulary of the properties, read off the input document *)

Registry == {"node", "way", "relation"}

\* the direct children of n named name, in document order
ChildrenNamed(n, name) == SelectSeq(n.childNodes, LAMBDA c : c.tagName = name)

\* the change entries of the document: the <action> children of its root
ChangeEntries == ChildrenNamed(node, "action")

HasWrapper(e, name) == Len(ChildrenNamed(e, name)) > 0

\* the element embedded in the wrapper of that name (None: only text)
Embedded(e, name) == FirstNontextFrom(ChildrenNamed(e, name)[1].childNodes, 1)

DiffConstructed == \E i \in 1..Len(db) : db[i].table = "Diff"

-----------------------------------------------------------------------------
(* C1 *)

-----------------------------------------------------------------------------
(* C2 *)

\* C2 as stated: every Change the Change Parser produced has, when its kind
\* is create, new present and old absent and, when its kind is delete or
\* remove, old present and new absent.
C2_KindInvariant ==
    \A k \in 1..Len(actions) :
        /\ actions[k].type = "create" =>
              actions[k].new # None /\ actions[k].old = None
        /\ actions[k].type \in {"delete", "remove"} =>
              actions[k].old # None /\ actions[k].new = None

\* C2 amended: every Change the Change Parser produced has, when its kind is
\* create, new present and old absent and, when its kind is delete, old
\* present and new absent; a Change of kind remove has old and new absent.
C2_KindInvariantAmended ==
    \A k \in 1..Len(actions) :
        /\ actions[k].type = "create" =>
              actions[k].new # None /\ actions[k].old = None
        /\ actions[k].type = "delete" =>
              actions[k].old # None /\ actions[k].new = None
        /\ actions[k].type = "remove" =>
              actions[k].old = None /\ actions[k].new = None

\* a delete Change and a remove Change have been produced
C2_Witness ==
    /\ Len(actions) = 2
    /\ actions[1].type = "delete"
    /\ actions[1].old # None
    /\ actions[2].type = "remove"

-----------------------------------------------------------------------------
(* C3 *)

\* C3: a change entry of kind modify that lacks a wrapper does not make the
\* Change Parser fail on that account (no AttributeError, and no failure at
\* all when both wrappers are missing), and the Change produced for it has
\* kind modify with old (new) absent when the old-wrapper (new-wrapper) is
\* missing.
C3_ModifyToleratesMissingWrapper ==
    \A k \in 1..Len(ChangeEntries) :
        LET e == ChangeEntries[k] IN
        (e.attributes["type"] = "modify"
            /\ ~(HasWrapper(e, "old") /\ HasWrapper(e, "new"))) =>
            /\ (pc = "raised" /\ index = k) =>
                  /\ exc.exc # "AttributeError"
                  /\ HasWrapper(e, "old") \/ HasWrapper(e, "new")
            /\ k <= Len(actions) =>
                  /\ actions[k].type = "modify"
                  /\ ~HasWrapper(e, "old") => actions[k].old = None
                  /\ ~HasWrapper(e, "new") => actions[k].new = None

-----------------------------------------------------------------------------
(* C4 *)

\* C4: a change entry of kind delete without an old-wrapper makes the Change
\* Parser fail with FileFormatError, never with another exception, and no
\* Change is produced for it.
C4_DeleteWithoutOldIsFormatError ==
    \A k \in 1..Len(ChangeEntries) :
        LET e == ChangeEntries[k] IN
        (e.attributes["type"] = "delete" /\ ~HasWrapper(e, "old")) =>
            /\ k > Len(actions)
            /\ (pc = "raised" /\ index = k) => exc.exc = "FileFormatError"

-----------------------------------------------------------------------------
(* C7 *)

\* the element a change entry has resolved first: the entry's own embedded
\* element (create), the old-wrapper's, or the new-wrapper's when the
\* old-wrapper is empty (modify), the old-wrapper's (delete)
ResolvedFirst(e) ==
    IF e.attributes["type"] = "create" THEN FirstNontextFrom(e.childNodes, 1)
    ELSE IF ~(HasWrapper(e, "old") /\ HasWrapper(e, "new")) THEN None
    ELSE IF e.attributes["type"] = "delete" THEN Embedded(e, "old")
    ELSE IF e.attributes["type"] = "modify"
    THEN (IF Embedded(e, "old") # None THEN Embedded(e, "old")
          ELSE Embedded(e, "new"))
    ELSE None

\* the unregistered kind name the parse of element x meets first: its tag
\* name, or the declared kind of the first member of a relation; "" if none
UnknownKind(x) ==
    IF x = None THEN ""
    ELSE IF x.tagName \notin Registry THEN x.tagName
    ELSE IF /\ x.tagName = "relation"
            /\ Len(ChildrenNamed(x, "member")) > 0
            /\ ChildrenNamed(x, "member")[1].attributes["type"] \notin Registry
    THEN ChildrenNamed(x, "member")[1].attributes["type"]
    ELSE ""

\* C7: resolving a kind name outside the registry {node, way, relation},
\* whether the tag name of an embedded element or the declared kind of a
\* member, raises FileFormatError naming that kind; no Element or Member row
\* is created for that node, no Change is produced for the entry, and the
\* document parse stops there with nothing attached to the Diff.
C7_UnknownKindIsFormatError ==
    /\ \A i \in 1..Len(db) :
          /\ db[i].table \in Registry => db[i].osmid # BadRef
          /\ db[i].table = "RelationMember" => db[i].role # "bad"
    /\ \A k \in 1..Len(ChangeEntries) :
          UnknownKind(ResolvedFirst(ChangeEntries[k])) # "" =>
              /\ k > Len(actions)
              /\ index = k =>
                    \/ pc = "loop"
                    \/ /\ pc = "raised"
                       /\ exc = [exc |-> "FileFormatError",
                                 arg |-> UnknownKind(ResolvedFirst(ChangeEntries[k]))]
                       /\ diff.actions = <<>>
                       /\ ~ENABLED Next

\* the second change entry embeds a relation whose member declares an
\* unregistered kind, and the parse has stopped on it
C7_Witness ==
    /\ pc = "raised"
    /\ index = 2
    /\ Len(actions) = 1
    /\ ResolvedFirst(ChangeEntries[2]) # None
    /\ ResolvedFirst(ChangeEntries[2]).tagName = "relation"
    /\ UnknownKind(ResolvedFirst(ChangeEntries[2])) = "foo"
    /\ exc.arg = "foo"

-----------------------------------------------------------------------------
(* C10 *)

\* C10 as stated: the Diff is constructed only once every change entry has
\* been parsed, and a run that fails ends without any Diff constructed.
C10_DiffConstructedLast ==
    /\ DiffConstructed => index > Len(ChangeEntries)
    /\ pc = "raised" => ~DiffConstructed

\* C10 amended: the Diff is constructed right after the root check passes,
\* before any change entry is parsed (its row is the first one created); the
\* Changes are attached to it only when every change entry has been parsed;
\* a run that fails on the root check ends with no Diff constructed, a run
\* that fails on a change entry ends with the Diff constructed and no Change
\* attached to it.
C10_DiffConstructedFirst ==
    /\ DiffConstructed <=>
          \/ pc \in {"loop", "done"}
          \/ pc = "raised" /\ exc.arg # NotAdiff
    /\ \A i \in 1..Len(db) : db[i].table = "Diff" <=> i = 1
    /\ (diff # None /\ diff.actions # <<>>) =>
          pc = "done" /\ index > Len(ChangeEntries)
    /\ (pc = "raised" /\ exc.arg = NotAdiff) => db = <<>> /\ diff = None
    /\ (pc = "raised" /\ exc.arg # NotAdiff) => diff = [actions |-> <<>>]

\* a run that failed on its second change entry, the Diff being constructed
C10_Witness ==
    /\ pc = "raised"
    /\ index = 2
    /\ Len(actions) = 1
    /\ DiffConstructed

-----------------------------------------------------------------------------
(* C5 *)

\* C5: for a <way> node whose <nd> children are bare references or inlined
\* points, the parse returns and the Path's position sequence has one entry
\* per <nd> child, in document order, the k-th (from 0) being that child's
\* point with index k.
C5_PathPositionsInOrder ==
    (pc # "call" /\ node.tagName = "way") =>
        /\ pc = "returned"
        /\ Len(result.nodes) = Len(ChildrenNamed(node, "nd"))
        /\ \A k \in 1..Len(ChildrenNamed(node, "nd")) :
              /\ result.nodes[k].order = k - 1
              /\ result.nodes[k].node.type = "node"
              /\ result.nodes[k].node.osmid
                    = ChildrenNamed(node, "nd")[k].attributes["ref"]

-----------------------------------------------------------------------------
(* C6 *)

\* C6: the member sequence of a parsed <relation> node has exactly one Member
\* per <member> child of that node, in document order, the k-th (from 0)
\* having index k and the role of the k-th <member> child, whatever the
\* members contain.
C6_GroupMembersInOrder ==
    (pc = "returned" /\ node.tagName = "relation") =>
        /\ Len(result.members) = Len(ChildrenNamed(node, "member"))
        /\ \A k \in 1..Len(ChildrenNamed(node, "member")) :
              /\ result.members[k].order = k - 1
              /\ result.members[k].role
                    = ChildrenNamed(node, "member")[k].attributes["role"]

-----------------------------------------------------------------------------
(* C9 *)

\* the Tags of the direct <tag> children of n, in document order
OwnTags(n) ==
    [k \in 1..Len(ChildrenNamed(n, "tag")) |->
        TagRow(ChildrenNamed(n, "tag")[k].attributes["k"],
               ChildrenNamed(n, "tag")[k].attributes["v"])]

\* C9: the tag sequence of a parsed Element is exactly one Tag per direct
\* <tag> child of its own node, in document order, duplicates kept; the tags
\* of a nested <nd> or <member> belong to the nested Element only.
C9_TagsAreOwnDirectChildren ==
    pc = "returned" =>
        /\ result.tags = OwnTags(node)
        /\ node.tagName = "way" =>
              \A k \in 1..Len(result.nodes) :
                  k <= Len(ChildrenNamed(node, "nd")) =>
                      result.nodes[k].node.tags
                          = OwnTags(ChildrenNamed(node, "nd")[k])

-----------------------------------------------------------------------------
(* C8 *)

EqualsAt(s) == {i \in 1..Len(s) : s[i] = "="}

\* C8 as stated: parse_tag_pattern returns exactly for the patterns with one
\* '=' between a non-empty key and a non-empty value, returning the key and,
\* unless the value is '*', the value; every other pattern raises
\* FileFormatError.
C8_ExactlyOneEquals ==
    pc # "call" =>
        IF /\ Cardinality(EqualsAt(tag_pattern)) = 1
           /\ \A i \in EqualsAt(tag_pattern) : 1 < i /\ i < Len(tag_pattern)
        THEN /\ pc = "returned"
             /\ \A i \in EqualsAt(tag_pattern) :
                   /\ result.k = SubSeq(tag_pattern, 1, i - 1)
                   /\ IF SubSeq(tag_pattern, i + 1, Len(tag_pattern)) = <<"*">>
                      THEN DOMAIN result = {"k"}
                      ELSE result.v = SubSeq(tag_pattern, i + 1, Len(tag_pattern))
        ELSE pc = "raised" /\ exc.exc = "FileFormatError"

\* the first line of the pattern: its longest prefix without a line break
FirstLine ==
    CHOOSE l \in {SubSeq(tag_pattern, 1, n) : n \in 0..Len(tag_pattern)} :
        /\ \A i \in 1..Len(l) : l[i] # "\n"
        /\ Len(l) = Len(tag_pattern) \/ tag_pattern[Len(l) + 1] = "\n"

\* the '=' of the first line with a character before and after them
Separators == {i \in EqualsAt(FirstLine) : 1 < i /\ i < Len(FirstLine)}

\* C8 amended: parse_tag_pattern returns exactly for the patterns whose first
\* line has an '=' with a character before it and a character after it; the
\* key is then the text before the LAST such '=' (so the value holds no '='
\* but possibly its last character) and the value the rest of the line,
\* left out when it is '*'; every other pattern raises ValueError carrying
\* the pattern.
C8_LastEqualsSeparates ==
    pc # "call" =>
        IF Separators # {}
        THEN /\ pc = "returned"
             /\ \E i \in Separators :
                   /\ \A j \in Separators : j <= i
                   /\ result.k = SubSeq(FirstLine, 1, i - 1)
                   /\ IF SubSeq(FirstLine, i + 1, Len(FirstLine)) = <<"*">>
                      THEN DOMAIN result = {"k"}
                      ELSE /\ DOMAIN result = {"k", "v"}
                           /\ result.v = SubSeq(FirstLine, i + 1, Len(FirstLine))
        ELSE /\ pc = "raised"
             /\ exc = [exc |-> "ValueError", arg |-> tag_pattern]

\* a pattern with two '=' has been parsed into a key holding the first one
C8_Witness ==
    /\ pc = "returned"
    /\ Cardinality(EqualsAt(tag_pattern)) = 2
    /\ DOMAIN result = {"k", "v"}
    /\ Cardinality(EqualsAt(result.k)) = 1

====
